---- MODULE Spec2Model ----
(***************************************************************************)
(* Model of src/streamlit_app.py: the "Sales Analyzer" script.  One run of *)
(* main() is a sequence of steps (dependency check, upload, read,          *)
(* validate, clean, summary, revenue, product, trends, display, charts,    *)
(* export); pc is the position of the run.                                 *)
(*                                                                         *)
(* A DataFrame is [columns |-> sequence of labels, rows |-> sequence of    *)
(* rows], a row being a sequence of cells aligned with the columns.        *)
(* Amounts are integers (whole currency units), so sums and products are   *)
(* exact; the ":.2f" formats are modelled as a value in hundredths.        *)
(***************************************************************************)
EXTENDS Integers, Sequences, FiniteSets, TLC

VARIABLES pc, openpyxl, uploaded_file, df, validation, column_report,
          revenue_metrics, product_metrics, trend_metrics, shown, exported

vars == <<pc, openpyxl, uploaded_file, df, validation, column_report,
          revenue_metrics, product_metrics, trend_metrics, shown, exported>>

(***************************************************************************)
(* Bounds of the explored inputs.                                          *)
(***************************************************************************)
MaxRows == 3
MaxDev == 2

(***************************************************************************)
(* Sequences.                                                              *)
(***************************************************************************)
Range(s) == {s[i] : i \in DOMAIN s}

RECURSIVE SumSeq(_)
SumSeq(s) == IF s = <<>> THEN 0 ELSE s[1] + SumSeq(Tail(s))

RECURSIVE ProdSeq(_)
ProdSeq(s) == IF s = <<>> THEN 1 ELSE s[1] * ProdSeq(Tail(s))

RECURSIVE SortedSeq(_)
SortedSeq(S) ==
    IF S = {} THEN <<>>
    ELSE LET m == CHOOSE x \in S : \A y \in S : x <= y
         IN <<m>> \o SortedSeq(S \ {m})

RECURSIVE ConcatAll(_)
ConcatAll(ss) == IF ss = <<>> THEN <<>> ELSE ss[1] \o ConcatAll(Tail(ss))

HasDuplicates(s) == \E i, j \in DOMAIN s : i < j /\ s[i] = s[j]

(***************************************************************************)
(* Cells.  k is the kind of value, v its content: a number, a text (v is   *)
(* the rank of the text in lexicographic order), a timestamp, a text that  *)
(* spells a date, or a monthly period (v is the index of the calendar      *)
(* month), or a missing value (NaN / NaT / None).                          *)
(***************************************************************************)
Num(n) == [k |-> "num", v |-> n]
Str(n) == [k |-> "str", v |-> n]
Date(m) == [k |-> "date", v |-> m]
DateStr(m) == [k |-> "datestr", v |-> m]
Period(m) == [k |-> "period", v |-> m]
NA == [k |-> "na", v |-> 0]

isna(c) == c.k = "na"

(***************************************************************************)
(* Column labels.  A label is a base name written in some case, with or    *)
(* without surrounding whitespace: 'Price', 'price', '  PRICE '.           *)
(***************************************************************************)
Label(b, c, p) == [base |-> b, case |-> c, pad |-> p]
Col(b) == Label(b, "title", FALSE)

strip(h) == [h EXCEPT !.pad = FALSE]
lower(h) == [h EXCEPT !.case = "lower"]

RequiredNames == {"Order Number", "Part Number", "Qty Shipped", "Product Type",
                  "Pieces per Carton", "Date Ordered", "Price"}

REQUIRED_COLUMNS == {Col(b) : b \in RequiredNames}

\* sorted(REQUIRED_COLUMNS)
SortedRequired == <<Col("Date Ordered"), Col("Order Number"), Col("Part Number"),
                    Col("Pieces per Carton"), Col("Price"), Col("Product Type"),
                    Col("Qty Shipped")>>

(***************************************************************************)
(* validate_columns                                                        *)
(***************************************************************************)
\* {col.strip().lower(): col for col in df.columns}: a later column replaces
\* an earlier one with the same key.
normalized_actual(columns) ==
    [n \in {lower(strip(columns[i])) : i \in DOMAIN columns} |->
        LET last == CHOOSE i \in DOMAIN columns :
                        /\ lower(strip(columns[i])) = n
                        /\ \A j \in DOMAIN columns :
                               lower(strip(columns[j])) = n => j <= i
        IN columns[last]]

normalized_required ==
    [n \in {lower(strip(r)) : r \in REQUIRED_COLUMNS} |->
        CHOOSE r \in REQUIRED_COLUMNS : lower(strip(r)) = n]

\* matched_columns[normalized_actual[req_norm]] = req_original
matched_columns(columns) ==
    LET na == normalized_actual(columns)
        found == {n \in DOMAIN normalized_required : n \in DOMAIN na}
    IN [c \in {na[n] : n \in found} |->
           normalized_required[CHOOSE n \in found : na[n] = c]]

\* df.rename(columns=matched_columns)
rename(columns, mapping) ==
    [i \in DOMAIN columns |->
        IF columns[i] \in DOMAIN mapping THEN mapping[columns[i]] ELSE columns[i]]

StillMissingExact(columns) == REQUIRED_COLUMNS \ Range(columns)

still_missing(columns) ==
    LET m == matched_columns(columns)
    IN REQUIRED_COLUMNS \ {m[c] : c \in DOMAIN m}

LenMatchedAll(columns) ==
    Cardinality(DOMAIN matched_columns(columns)) = Cardinality(REQUIRED_COLUMNS)

NoResult == [ok |-> FALSE, columns |-> <<>>, missing |-> {}, contains |-> <<>>]

validate_columns(columns) ==
    IF REQUIRED_COLUMNS \ Range(columns) = {}
    THEN [ok |-> TRUE, columns |-> columns, missing |-> {}, contains |-> <<>>]
    ELSE IF LenMatchedAll(columns)
         THEN [ok |-> TRUE, columns |-> rename(columns, matched_columns(columns)),
               missing |-> {}, contains |-> <<>>]
         ELSE [ok |-> FALSE, columns |-> columns,
               missing |-> still_missing(columns), contains |-> columns]

(***************************************************************************)
(* DataFrame operations.                                                   *)
(***************************************************************************)
EmptyFrame == [columns |-> <<>>, rows |-> <<>>]

HasColumn(data, label) == label \in Range(data.columns)

\* position of the column a label selects
ColIndex(data, label) ==
    CHOOSE i \in DOMAIN data.columns :
        /\ data.columns[i] = label
        /\ \A j \in DOMAIN data.columns : data.columns[j] = label => i <= j

Column(data, label) ==
    LET i == ColIndex(data, label)
    IN [r \in DOMAIN data.rows |-> data.rows[r][i]]

\* data[label] = values, in place: replaces the column or appends a new one
SetColumn(data, label, values) ==
    IF HasColumn(data, label)
    THEN [data EXCEPT !.rows =
             [r \in DOMAIN data.rows |->
                 [data.rows[r] EXCEPT ![ColIndex(data, label)] = values[r]]]]
    ELSE [columns |-> Append(data.columns, label),
          rows |-> [r \in DOMAIN data.rows |-> Append(data.rows[r], values[r])]]

RECURSIVE SelectRows(_, _)
SelectRows(rows, keep) ==
    IF rows = <<>> THEN <<>>
    ELSE (IF keep[1] THEN <<rows[1]>> ELSE <<>>)
             \o SelectRows(Tail(rows), Tail(keep))

dropna_keeps_all(data, labels) == data

\* df.dropna(subset=labels): a new frame without the rows that miss a value
dropna(data, labels) ==
    [columns |-> data.columns,
     rows |-> SelectRows(data.rows,
                 [r \in DOMAIN data.rows |->
                     \A l \in labels : ~isna(data.rows[r][ColIndex(data, l)])])]

\* pd.to_datetime: timestamps stay, texts that spell a date are parsed,
\* missing values become NaT; any other value raises
to_datetime_raises(cells) ==
    \E i \in DOMAIN cells : cells[i].k \notin {"date", "datestr", "na"}

to_datetime(cells) ==
    [i \in DOMAIN cells |->
        IF cells[i].k = "datestr" THEN Date(cells[i].v) ELSE cells[i]]

\* the .dt accessor raises on a column that does not hold timestamps
dt_raises(cells) == \E i \in DOMAIN cells : cells[i].k \notin {"date", "na"}

\* Series.sum() / Series.mean(): missing values are skipped
RECURSIVE sum(_)
sum(cells) ==
    IF cells = <<>> THEN 0
    ELSE (IF cells[1].k = "num" THEN cells[1].v ELSE 0) + sum(Tail(cells))

RECURSIVE count(_)
count(cells) ==
    IF cells = <<>> THEN 0
    ELSE (IF cells[1].k = "num" THEN 1 ELSE 0) + count(Tail(cells))

\* a * b on two cells; a missing operand gives a missing result
mul(a, b) == IF isna(a) \/ isna(b) THEN NA ELSE Num(a.v * b.v)

\* rounding of n/d (d > 0) to the nearest integer, ties to even
RoundHalfEven(n, d) ==
    LET q == n \div d
        r == n % d
    IN IF 2 * r < d THEN q
       ELSE IF 2 * r > d THEN q + 1
       ELSE IF q % 2 = 0 THEN q ELSE q + 1

Inf == [k |-> "inf", v |-> 0]

\* f"{x:,.2f}" of an integer amount, in hundredths
fmt2f(n) == Num(n * 100)

\* f"{n/d:.2f}" in hundredths; nan when d = 0 and n = 0, inf when only d = 0
fmt2f_ratio(n, d) ==
    IF d = 0 THEN (IF n = 0 THEN NA ELSE Inf)
    ELSE Num(RoundHalfEven(n * 100, d))

\* the group keys of data.groupby(label): distinct, missing keys dropped
group_keys_sorted(data, label) ==
    SortedSeq({Column(data, label)[r].v : r \in
                  {x \in DOMAIN data.rows : ~isna(Column(data, label)[x])}})

RECURSIVE FirstSeen(_, _)
FirstSeen(cells, seen) ==
    IF cells = <<>> THEN <<>>
    ELSE IF isna(cells[1]) \/ cells[1].v \in seen
         THEN FirstSeen(Tail(cells), seen)
         ELSE <<cells[1].v>> \o FirstSeen(Tail(cells), seen \cup {cells[1].v})

\* the keys in order of first appearance (groupby(..., sort=False))
group_keys_appearance(data, label) == FirstSeen(Column(data, label), {})

\* groupby sorts the group keys
group_keys(data, label) == group_keys_sorted(data, label)

\* the cells of column `value` in the rows of group `key`, in row order
group_cells(data, label, key, value) ==
    LET keycol == Column(data, label)
        valcol == Column(data, value)
    IN SelectRows(valcol,
           [r \in DOMAIN data.rows |-> ~isna(keycol[r]) /\ keycol[r].v = key])

Metric(kind, key, a, b, c) == [kind |-> kind, key |-> key, a |-> a, b |-> b, c |-> c]

(***************************************************************************)
(* calculate_revenue_metrics: returns (metrics, data); data is the table   *)
(* it was given, with 'Total Revenue' assigned in place.  raised stands    *)
(* for the exception a text operand causes (in the product, in the sum of  *)
(* the resulting object column, or in the numeric format of the total).    *)
(***************************************************************************)
total_revenue_column_price_only(data) ==
    [r \in DOMAIN data.rows |-> Column(data, Col("Price"))[r]]

total_revenue_column(data) ==
    [r \in DOMAIN data.rows |->
        mul(Column(data, Col("Qty Shipped"))[r], Column(data, Col("Price"))[r])]

total_revenue(data) == sum(Column(data, Col("Total Revenue")))

revenue_by_type(data) ==
    LET keys == group_keys(data, Col("Product Type"))
    IN [i \in DOMAIN keys |->
           Metric("revenue_by_type", Str(keys[i]),
                  fmt2f(sum(group_cells(data, Col("Product Type"), keys[i],
                                        Col("Total Revenue")))), NA, NA)]

calculate_revenue_metrics(data) ==
    IF HasColumn(data, Col("Qty Shipped")) /\ HasColumn(data, Col("Price"))
    THEN IF \E r \in DOMAIN data.rows :
                \/ Column(data, Col("Qty Shipped"))[r].k = "str"
                \/ Column(data, Col("Price"))[r].k = "str"
         THEN [raised |-> TRUE, metrics |-> <<>>, data |-> data]
         ELSE LET d == SetColumn(data, Col("Total Revenue"), total_revenue_column(data))
              IN IF ~HasColumn(d, Col("Product Type"))
                 THEN [raised |-> TRUE, metrics |-> <<>>, data |-> d]
                 ELSE [raised |-> FALSE,
                       metrics |-> <<Metric("total_revenue", NA,
                                            fmt2f(total_revenue(d)), NA, NA),
                                     Metric("revenue_by_type_header", NA, NA, NA, NA)>>
                                   \o revenue_by_type(d),
                       data |-> d]
    ELSE [raised |-> FALSE, metrics |-> <<>>, data |-> data]

(***************************************************************************)
(* calculate_product_metrics: reads the table, returns the metrics.        *)
(***************************************************************************)
mean2f(cells) == fmt2f_ratio(sum(cells), count(cells))

\* raised: the KeyError of .agg on a label the table does not have
calculate_product_metrics(data) ==
    IF HasColumn(data, Col("Product Type")) /\ HasColumn(data, Col("Qty Shipped"))
    THEN IF ~HasColumn(data, Col("Price")) \/ ~HasColumn(data, Col("Pieces per Carton"))
         THEN [raised |-> TRUE, metrics |-> <<>>]
         ELSE LET keys == group_keys(data, Col("Product Type"))
                  cells(i, c) == group_cells(data, Col("Product Type"), keys[i], Col(c))
              IN [raised |-> FALSE,
                  metrics |->
                    <<Metric("shipped_header", NA, NA, NA, NA)>>
                    \o [i \in DOMAIN keys |->
                           Metric("shipped_by_type", Str(keys[i]),
                                  Num(sum(cells(i, "Qty Shipped"))), NA, NA)]
                    \o <<Metric("average_header", NA, NA, NA, NA)>>
                    \o [i \in DOMAIN keys |->
                           Metric("avg_by_type", Str(keys[i]),
                                  mean2f(cells(i, "Price")),
                                  mean2f(cells(i, "Qty Shipped")),
                                  mean2f(cells(i, "Pieces per Carton")))]]
    ELSE [raised |-> FALSE, metrics |-> <<>>]

(***************************************************************************)
(* calculate_trends: returns the metrics; 'Month' is assigned in place to  *)
(* the table it was given, so the caller's table carries it afterwards.    *)
(***************************************************************************)
\* data['Date Ordered'].dt.to_period('M')
month_column(data) ==
    [r \in DOMAIN data.rows |->
        LET c == Column(data, Col("Date Ordered"))[r]
        IN IF isna(c) THEN NA ELSE Period(c.v)]

monthly_revenue_unsorted(data) ==
    LET keys == group_keys_appearance(data, Col("Month"))
    IN [i \in DOMAIN keys |->
           sum(group_cells(data, Col("Month"), keys[i], Col("Total Revenue")))]

\* data.groupby('Month')['Total Revenue'].sum(): one sum per month present
monthly_revenue(data) ==
    LET keys == group_keys(data, Col("Month"))
    IN [i \in DOMAIN keys |->
           sum(group_cells(data, Col("Month"), keys[i], Col("Total Revenue")))]

first_index(monthly) == 1

\* iloc[-2]
previous_index(monthly) == Len(monthly) - 1

\* ((current_month - previous_month) / previous_month) * 100, as ":.2f"
growth(monthly) ==
    LET current_month == monthly[Len(monthly)]
        previous_month == monthly[previous_index(monthly)]
    IN Metric("change",
              NA,
              fmt2f_ratio((current_month - previous_month) * 100, previous_month),
              fmt2f(previous_month),
              fmt2f(current_month))

calculate_trends(data) ==
    IF HasColumn(data, Col("Date Ordered")) /\ HasColumn(data, Col("Total Revenue"))
    THEN IF dt_raises(Column(data, Col("Date Ordered")))
         THEN [metrics |-> <<Metric("trend_error", NA, NA, NA, NA)>>, data |-> data]
         ELSE LET d == SetColumn(data, Col("Month"), month_column(data))
                  monthly == monthly_revenue(d)
              IN [metrics |-> IF Len(monthly) > 1
                              THEN <<growth(monthly)>>
                              ELSE <<Metric("need_two_months", NA, NA, NA, NA)>>,
                  data |-> d]
    ELSE [metrics |-> <<>>, data |-> data]

(***************************************************************************)
(* Uploaded files.  A file is a header row and data rows; a data row gives *)
(* each column the value of its base name.                                 *)
(***************************************************************************)
FileOrder == <<"Order Number", "Part Number", "Qty Shipped", "Product Type",
               "Pieces per Carton", "Date Ordered", "Price">>

Rec(pt, qty, price, date) == [pt |-> pt, qty |-> qty, price |-> price, date |-> date]

CellFor(base, rec) ==
    CASE base = "Order Number" -> Num(1)
      [] base = "Part Number" -> Str(0)
      [] base = "Qty Shipped" -> rec.qty
      [] base = "Product Type" -> rec.pt
      [] base = "Pieces per Carton" -> Num(12)
      [] base = "Date Ordered" -> rec.date
      [] base = "Price" -> rec.price
      [] OTHER -> NA

FileFrame(columns, recs) ==
    [columns |-> columns,
     rows |-> [r \in DOMAIN recs |->
                 [i \in DOMAIN columns |-> CellFor(columns[i].base, recs[r])]]]

\* the spellings of a header: 'Price', 'price', '  PRICE '
Forms == {<<"title", FALSE>>, <<"lower", FALSE>>, <<"upper", TRUE>>}

\* what a file has in place of the exact header: nothing, another spelling,
\* or two spellings side by side
DevShapes ==
    ({<<>>} \cup {<<f>> : f \in Forms}
            \cup {<<f, g>> : f, g \in Forms}) \ ({<<<<"title", FALSE>>>>}
            \cup {<<f, f>> : f \in Forms})

HeaderList(D, g) ==
    ConcatAll([i \in DOMAIN FileOrder |->
                 IF FileOrder[i] \in D
                 THEN [j \in DOMAIN g[FileOrder[i]] |->
                          Label(FileOrder[i], g[FileOrder[i]][j][1],
                                g[FileOrder[i]][j][2])]
                 ELSE <<Col(FileOrder[i])>>])
        \o <<Col("Notes")>>

\* D: the required headers that deviate, g: what the file has in their place
ExactHeaders == HeaderList({}, <<>>)

RevenueRecs ==
    {Rec(pt, Num(q), Num(p), Date(1)) :
        pt \in {Str(1), Str(2), NA}, q \in {1, 2}, p \in {3}}

TrendRecs ==
    {Rec(Str(1), Num(1), Num(p), Date(m)) : p \in {0, 90, 100, 150}, m \in {1, 2, 3}}

\* rows with a missing or a non-numeric value
DirtyRecs ==
    {Rec(Str(1), Num(2), Num(3), Date(1)), Rec(Str(1), Num(2), Num(3), DateStr(2)),
     Rec(Str(1), NA, Num(3), Date(1)), Rec(Str(1), Str(0), Num(3), Date(1)),
     Rec(Str(1), Num(2), NA, Date(1)), Rec(Str(1), Num(2), Str(0), Date(1)),
     Rec(Str(1), Num(2), Num(3), NA), Rec(Str(1), Num(2), Num(3), Str(0)),
     Rec(Str(1), Str(0), NA, Date(1)), Rec(NA, Num(2), Num(3), Date(2))}

SampleRecs == <<Rec(Str(1), Num(2), Num(3), Date(1)), Rec(Str(2), Num(1), Num(3), Date(2))>>

File(ext, readable, frame) ==
    [present |-> TRUE, ext |-> ext, readable |-> readable, frame |-> frame]

NoFile == [present |-> FALSE, ext |-> "", readable |-> FALSE, frame |-> EmptyFrame]

\* the uploads explored: header rows over a sample table, and tables of each
\* family of rows under the exact headers
IsInput(file, deps) ==
    \/ /\ deps
       /\ \/ file = NoFile
          \/ \E D \in {S \in SUBSET RequiredNames : Cardinality(S) <= MaxDev} :
                \E g \in [D -> DevShapes] :
                   file = File("xlsx", TRUE, FileFrame(HeaderList(D, g), SampleRecs))
          \/ \E n \in 0..MaxRows : \E t \in [1..n -> RevenueRecs] :
                file = File("xlsx", TRUE, FileFrame(ExactHeaders, t))
          \/ \E n \in 0..MaxRows : \E t \in [1..n -> TrendRecs] :
                file = File("xlsx", TRUE, FileFrame(ExactHeaders, t))
          \/ \E n \in 0..MaxRows : \E t \in [1..n -> DirtyRecs] :
                file = File("xls", TRUE, FileFrame(ExactHeaders, t))
          \/ \E e \in {"xlsx", "xls"} :
                file = File(e, FALSE, FileFrame(ExactHeaders, SampleRecs))
    \/ /\ ~deps
       /\ file = File("xlsx", TRUE, FileFrame(ExactHeaders, SampleRecs))

NoExport == [offered |-> FALSE, frame |-> EmptyFrame]

(***************************************************************************)
(* main(): the run, step by step.                                          *)
(***************************************************************************)
Init ==
    /\ pc = "start"
    /\ openpyxl \in BOOLEAN
    /\ IsInput(uploaded_file, openpyxl)
    /\ df = EmptyFrame
    /\ validation = NoResult
    /\ column_report = <<>>
    /\ revenue_metrics = <<>>
    /\ product_metrics = <<>>
    /\ trend_metrics = <<>>
    /\ shown = <<>>
    /\ exported = NoExport

\* the except clause of main: the error is reported and the run ends
critical_error ==
    /\ shown' = Append(shown, "critical_error")
    /\ pc' = "done"

\* check_dependencies and the st.stop() after it
check_dependencies ==
    /\ pc = "start"
    /\ IF openpyxl
       THEN pc' = "upload" /\ shown' = shown
       ELSE pc' = "done" /\ shown' = Append(shown, "dependency_error")
    /\ UNCHANGED <<openpyxl, uploaded_file, df, validation, column_report,
                   revenue_metrics, product_metrics, trend_metrics, exported>>

file_uploader ==
    /\ pc = "upload"
    /\ IF ~uploaded_file.present
       THEN pc' = "done" /\ shown' = Append(shown, "info_upload")
       ELSE pc' = "read" /\ shown' = shown
    /\ UNCHANGED <<openpyxl, uploaded_file, df, validation, column_report,
                   revenue_metrics, product_metrics, trend_metrics, exported>>

read_excel_no_raise ==
    /\ pc = "read"
    /\ df' = uploaded_file.frame /\ pc' = "validate" /\ shown' = shown
    /\ UNCHANGED <<openpyxl, uploaded_file, validation, column_report,
                   revenue_metrics, product_metrics, trend_metrics, exported>>

\* pd.read_excel inside the try block of main
read_excel ==
    /\ pc = "read"
    /\ IF uploaded_file.readable
       THEN df' = uploaded_file.frame /\ pc' = "validate" /\ shown' = shown
       ELSE df' = df /\ critical_error
    /\ UNCHANGED <<openpyxl, uploaded_file, validation, column_report,
                   revenue_metrics, product_metrics, trend_metrics, exported>>

\* the "Your Columns" side of the report: per required column, the first
\* column of the file that matches it, if any
matching_report(columns) ==
    [i \in DOMAIN SortedRequired |->
        LET hits == {j \in DOMAIN columns :
                        lower(strip(columns[j])) = lower(strip(SortedRequired[i]))}
        IN IF hits = {} THEN [found |-> FALSE, col |-> SortedRequired[i]]
           ELSE [found |-> TRUE,
                 col |-> columns[CHOOSE j \in hits : \A x \in hits : j <= x]]]

\* is_valid, validation_result = validate_columns(df); df itself keeps its labels
validate ==
    /\ pc = "validate"
    /\ validation' = validate_columns(df.columns)
    /\ IF validation'.ok
       THEN pc' = "clean" /\ shown' = shown /\ column_report' = column_report
       ELSE /\ pc' = "done"
            /\ shown' = shown \o <<"validation_error", "column_report">>
            /\ column_report' = matching_report(df.columns)
    /\ UNCHANGED <<openpyxl, uploaded_file, df,
                   revenue_metrics, product_metrics, trend_metrics, exported>>

CleanLabels == {Col("Qty Shipped"), Col("Price"), Col("Date Ordered")}

\* to_datetime, then dropna; a label the table lacks raises KeyError
clean ==
    /\ pc = "clean"
    /\ IF \/ ~(CleanLabels \subseteq Range(df.columns))
          \/ to_datetime_raises(Column(df, Col("Date Ordered")))
       THEN df' = df /\ critical_error
       ELSE /\ df' = dropna(SetColumn(df, Col("Date Ordered"),
                                      to_datetime(Column(df, Col("Date Ordered")))),
                            CleanLabels)
            /\ pc' = "summary" /\ shown' = shown
    /\ UNCHANGED <<openpyxl, uploaded_file, validation, column_report,
                   revenue_metrics, product_metrics, trend_metrics, exported>>

\* the record count, the sample and the date range; min() of no dates is NaT,
\* whose .date() raises
summary ==
    /\ pc = "summary"
    /\ IF df.rows = <<>>
       THEN shown' = shown \o <<"success", "critical_error">> /\ pc' = "done"
       ELSE shown' = shown \o <<"success", "raw_sample">> /\ pc' = "revenue"
    /\ UNCHANGED <<openpyxl, uploaded_file, df, validation, column_report,
                   revenue_metrics, product_metrics, trend_metrics, exported>>

revenue ==
    /\ pc = "revenue"
    /\ LET res == calculate_revenue_metrics(df)
       IN /\ df' = res.data
          /\ IF res.raised
             THEN revenue_metrics' = revenue_metrics /\ critical_error
             ELSE revenue_metrics' = res.metrics /\ pc' = "product" /\ shown' = shown
    /\ UNCHANGED <<openpyxl, uploaded_file, validation, column_report,
                   product_metrics, trend_metrics, exported>>

product ==
    /\ pc = "product"
    /\ LET res == calculate_product_metrics(df)
       IN IF res.raised
          THEN product_metrics' = product_metrics /\ critical_error
          ELSE product_metrics' = res.metrics /\ pc' = "trends" /\ shown' = shown
    /\ UNCHANGED <<openpyxl, uploaded_file, df, validation, column_report,
                   revenue_metrics, trend_metrics, exported>>

trends ==
    /\ pc = "trends"
    /\ LET res == calculate_trends(df)
       IN df' = res.data /\ trend_metrics' = res.metrics
    /\ pc' = "display"
    /\ UNCHANGED <<openpyxl, uploaded_file, validation, column_report,
                   revenue_metrics, product_metrics, shown, exported>>

\* the three KPI columns and the detailed breakdown
display ==
    /\ pc = "display"
    /\ shown' = shown \o <<"kpi", "details">>
    /\ pc' = "visualize"
    /\ UNCHANGED <<openpyxl, uploaded_file, df, validation, column_report,
                   revenue_metrics, product_metrics, trend_metrics, exported>>

\* the two chart sections; the charts read df and change nothing
display_visualizations ==
    /\ pc = "visualize"
    /\ shown' = shown
          \o (IF HasColumn(df, Col("Date Ordered")) /\ HasColumn(df, Col("Total Revenue"))
              THEN <<"revenue_trends">> ELSE <<>>)
          \o (IF HasColumn(df, Col("Product Type"))
              THEN <<"product_analysis">> ELSE <<>>)
    /\ pc' = "export"
    /\ UNCHANGED <<openpyxl, uploaded_file, df, validation, column_report,
                   revenue_metrics, product_metrics, trend_metrics, exported>>

\* st.download_button(data=df.to_csv(index=False))
download_button ==
    /\ pc = "export"
    /\ exported' = [offered |-> TRUE, frame |-> df]
    /\ shown' = Append(shown, "download_button")
    /\ pc' = "done"
    /\ UNCHANGED <<openpyxl, uploaded_file, df, validation, column_report,
                   revenue_metrics, product_metrics, trend_metrics>>

Next ==
    \/ check_dependencies
    \/ file_uploader
    \/ read_excel
    \/ validate
    \/ clean
    \/ summary
    \/ revenue
    \/ product
    \/ trends
    \/ display
    \/ display_visualizations
    \/ download_button

Spec == Init /\ [][Next]_vars

(***************************************************************************)
(* Properties.                                                             *)
(***************************************************************************)
\* the run got past the read of a file
FileWasRead == openpyxl /\ uploaded_file.present /\ uploaded_file.readable

AfterValidate == FileWasRead /\ pc \notin {"start", "upload", "read", "validate"}

AfterRevenue ==
    pc \in {"product", "trends", "display", "visualize", "export"} \/ exported.offered

AfterTrends == pc \in {"display", "visualize", "export"} \/ exported.offered

NoMetricsNoExport ==
    /\ revenue_metrics = <<>>
    /\ product_metrics = <<>>
    /\ trend_metrics = <<>>
    /\ exported = NoExport
    /\ "download_button" \notin Range(shown)

\* the required columns no header of the file matches, neither as written
\* nor after trimming and lowercasing
Unmatched(columns) ==
    {r \in REQUIRED_COLUMNS :
        \A i \in DOMAIN columns :
            columns[i] # r /\ lower(strip(columns[i])) # lower(strip(r))}

\* C3: when some required column cannot be matched, validation fails, its
\* message names exactly the unmatched required columns, and the run ends
\* there: no metric is computed and no export is offered.
C3_ValidationFailureHalts ==
    (AfterValidate /\ Unmatched(uploaded_file.frame.columns) # {}) =>
        /\ ~validation.ok
        /\ validation.missing = Unmatched(uploaded_file.frame.columns)
        /\ pc = "done"
        /\ "validation_error" \in Range(shown)
        /\ NoMetricsNoExport

\* a run that failed validation with one required header only fuzzily
\* matched and another one absent
C3_Witness ==
    /\ AfterValidate /\ pc = "done" /\ ~validation.ok
    /\ validation.missing # {}
    /\ \E r \in REQUIRED_COLUMNS :
          /\ r \notin Range(uploaded_file.frame.columns)
          /\ r \notin validation.missing

\* C5: when the file cannot be read, the run reports the critical error and
\* ends; validation, cleaning, metrics, charts and export are never reached.
C5_ReadFailureEndsRun ==
    (openpyxl /\ uploaded_file.present /\ ~uploaded_file.readable) =>
        /\ pc \in {"start", "upload", "read", "done"}
        /\ df = EmptyFrame
        /\ validation = NoResult
        /\ NoMetricsNoExport
        /\ pc = "done" => shown = <<"critical_error">>

C5_Witness ==
    /\ openpyxl /\ uploaded_file.present /\ ~uploaded_file.readable
    /\ pc = "done" /\ shown = <<"critical_error">>

\* C10: a successful validation of distinct headers returns a table with
\* each required name exactly once, and validating that table again
\* succeeds and renames nothing.
C10_EachRequiredNameOnce ==
    (AfterValidate /\ validation.ok /\ ~HasDuplicates(uploaded_file.frame.columns)) =>
        /\ \A r \in REQUIRED_COLUMNS :
              Cardinality({i \in DOMAIN validation.columns :
                              validation.columns[i] = r}) = 1
        /\ validate_columns(validation.columns).ok
        /\ validate_columns(validation.columns).columns = validation.columns

(***************************************************************************)
(* Reference values, computed from the rows rather than by the metric      *)
(* functions.                                                              *)
(***************************************************************************)
RECURSIVE SumOver(_, _)
SumOver(f, S) ==
    IF S = {} THEN 0
    ELSE LET x == CHOOSE y \in S : TRUE IN f[x] + SumOver(f, S \ {x})

RowRevenue(data, r) ==
    Column(data, Col("Qty Shipped"))[r].v * Column(data, Col("Price"))[r].v

RevenueOf(data, R) == SumOver([r \in R |-> RowRevenue(data, r)], R)

\* the entries of the revenue-by-product-type list
TypeEntries == {i \in DOMAIN revenue_metrics : revenue_metrics[i].kind = "revenue_by_type"}

\* C1: after calculate_revenue_metrics every row's 'Total Revenue' is its
\* 'Qty Shipped' times its 'Price', and the reported total is the sum of
\* these over all rows.
C1_RevenueIsQtyTimesPrice ==
    AfterRevenue =>
        /\ HasColumn(df, Col("Total Revenue"))
        /\ \A r \in DOMAIN df.rows :
              Column(df, Col("Total Revenue"))[r] = Num(RowRevenue(df, r))
        /\ revenue_metrics[1].kind = "total_revenue"
        /\ revenue_metrics[1].a = Num(100 * RevenueOf(df, DOMAIN df.rows))

\* several rows, quantities other than 1, a total that is not the sum of prices
C1_Witness ==
    /\ pc = "product"
    /\ Len(df.rows) >= 2
    /\ \E r \in DOMAIN df.rows : Column(df, Col("Qty Shipped"))[r].v > 1
    /\ revenue_metrics[1].a.v > 0

\* C2: the per-product-type revenues sum to the reported total revenue.
C2_TypeRevenuesSumToTotal ==
    AfterRevenue =>
        SumOver([i \in TypeEntries |-> revenue_metrics[i].a.v], TypeEntries)
            = revenue_metrics[1].a.v

MonthsPresent(data) == {Column(data, Col("Date Ordered"))[r].v : r \in DOMAIN data.rows}

MonthTotal(data, m) ==
    RevenueOf(data, {r \in DOMAIN data.rows : Column(data, Col("Date Ordered"))[r].v = m})

\* the monthly totals in chronological order
MonthTotals(data) ==
    LET ms == SortedSeq(MonthsPresent(data))
    IN [i \in DOMAIN ms |-> MonthTotal(data, ms[i])]

Permuted(data, p) == [data EXCEPT !.rows = [i \in DOMAIN data.rows |-> data.rows[p[i]]]]

\* C9: the monthly buckets do not depend on the order of the rows: for every
\* permutation of the rows they are the months present, in chronological
\* order, with the same sums; the change is reported exactly when there is
\* more than one bucket, and it compares the two latest months present.
C9_MonthlyOrderIndependent ==
    pc = "display" =>
        LET t == MonthTotals(df)
        IN /\ monthly_revenue(df) = t
           /\ \A p \in Permutations(DOMAIN df.rows) :
                 monthly_revenue(Permuted(df, p)) = t
           /\ Len(trend_metrics) = 1
           /\ trend_metrics[1].kind = "change" <=> Cardinality(MonthsPresent(df)) > 1
           /\ trend_metrics[1].kind = "change" =>
                 /\ trend_metrics[1].c = Num(100 * t[Len(t)])
                 /\ trend_metrics[1].b = Num(100 * t[Len(t) - 1])

\* rows out of chronological order, more than one month, a change reported
C9_Witness ==
    /\ pc = "display"
    /\ trend_metrics[1].kind = "change"
    /\ \E r, q \in DOMAIN df.rows :
          r < q /\ Column(df, Col("Date Ordered"))[r].v > Column(df, Col("Date Ordered"))[q].v
    /\ trend_metrics[1].b # trend_metrics[1].c

\* the arithmetic mean of the month-over-month percentage changes of t, as
\* a ratio n/d
MeanChange(t) ==
    LET k == Len(t)
        others(i) == ProdSeq([j \in 1..(k - 2) |-> IF j < i THEN t[j] ELSE t[j + 1]])
    IN [n |-> SumSeq([i \in 1..(k - 1) |-> (t[i + 1] - t[i]) * 100 * others(i)]),
        d |-> (k - 1) * ProdSeq([j \in 1..(k - 1) |-> t[j]])]

UsableFile ==
    /\ FileWasRead
    /\ REQUIRED_COLUMNS \subseteq Range(uploaded_file.frame.columns)

FileCell(r, b) == Column(uploaded_file.frame, Col(b))[r]

FileRows == DOMAIN uploaded_file.frame.rows

BadValue(c) == c.k \in {"na", "str"}

\* rows of the file that miss none of quantity, price and date
Complete(r) ==
    ~isna(FileCell(r, "Qty Shipped")) /\ ~isna(FileCell(r, "Price"))
        /\ ~isna(FileCell(r, "Date Ordered"))

\* the complete rows of the file, in order, their dates parsed
KeptRows ==
    LET f == uploaded_file.frame
        i == ColIndex(f, Col("Date Ordered"))
    IN SelectRows([r \in FileRows |->
                      [f.rows[r] EXCEPT ![i] =
                          IF f.rows[r][i].k = "datestr" THEN Date(f.rows[r][i].v)
                          ELSE f.rows[r][i]]],
                  [r \in FileRows |-> Complete(r)])

\* the columns of the file, out of a row of the exported table
InputPart(row) == SubSeq(row, 1, Len(uploaded_file.frame.columns))

C6_OnlyInputPlusRevenue ==
    /\ pc \in {"display", "visualize", "export"} =>
          df.columns = Append(uploaded_file.frame.columns, Col("Total Revenue"))
    /\ exported.offered =>
          exported.frame.columns = Append(uploaded_file.frame.columns, Col("Total Revenue"))

====
